---- MODULE Spec2Model ----
(***************************************************************************)
(* Model of Mini-Agent:                                                    *)
(*   - LLMClientBase.enforce_context_limit  (mini_agent/llm/base.py)       *)
(*   - ContextSelector.select_context (mini_agent/tools/context_selector.py)*)
(*   - KeyboardListener              (mini_agent/utils/keyboard_utils.py)  *)
(*   - ConfigOverride.apply_overrides     (mini_agent/config_override.py)  *)
(* Each has its own specification; the variables of the others stay at     *)
(* rest in it.                                                              *)
(* Message objects live in a heap and lists hold references, so that       *)
(* object identity (id(m)) and aliasing between the caller's list and the  *)
(* working copy are part of the model.                                     *)
(***************************************************************************)
EXTENDS Integers, Sequences, FiniteSets, TLC

VARIABLES
    heap,                \* Seq(Message): every Message object, by reference
    messages,            \* the caller's list: Seq(reference)
    given,               \* the Message values the caller passed, as passed
    call_args,           \* [model_context_limit, safety_margin] of the call
    self_cfg,            \* [model_context_limit, context_safety_margin]
    pc,                  \* position inside enforce_context_limit
    target,
    per_message_target,
    msgs,                \* the working copy: Seq(reference)
    preserved,           \* Seq(reference)
    preserved_ids,       \* [bound |-> FALSE] or [bound |-> TRUE, ids |-> set]
    prunable,            \* Seq(reference)
    removed_accumulator, \* Seq(reference)
    preserved_tokens,
    prunable_tokens,
    max_iterations,
    iterations,
    result,              \* the returned list: Seq(reference)
    raised,              \* "none" or the exception that ended the call
    \* ---- ContextSelector.select_context
    avg_tokens_per_word, \* self.avg_tokens_per_word, a rational [num, den]
    query,               \* Seq(word)
    documents,           \* the three pools: Seq(entry)
    pool_messages,
    tools_outputs,
    token_budget,
    sel_pc,              \* position inside select_context
    items,               \* Seq(ContextItem), scored and sorted
    idx,                 \* position of the scan in items
    picked,              \* for each selected entry, its position in items
    selected,            \* Seq of returned records
    used_tokens,
    \* ---- KeyboardListener (Unix listener)
    should_stop,         \* self._should_stop
    current_key,         \* self._current_key: None or a string
    listener_thread,     \* self._listener_thread: none, or where the thread is
    ch,                  \* local of _listen_unix
    next_char,           \* local of _listen_unix
    stdin,               \* characters typed and not yet read
    stdin_eof,           \* stdin has been closed: read(1) returns ''
    is_tty,              \* whether stdin is a terminal
    raw_mode,            \* the terminal is in raw mode
    keys_typed,          \* number of key presses so far
    returned,            \* the last call of a reader: which, the key it read, its value
    last_call,           \* which of start() and stop() was called last
    esc_typed,           \* how many times the user has pressed ESC
    esc_reported,        \* how many calls of is_esc_pressed() have returned True
    \* ---- ConfigOverride.apply_overrides
    config_dict,         \* the base configuration
    override_data,       \* the parsed override file ({} when there is none)
    environ,             \* os.environ, restricted to the mapped variables
    cli_args,            \* self.cli_args, in insertion order
    cfg_pc,              \* position inside apply_overrides
    cfg_result,          \* result
    cli_done,            \* entries of cli_args already applied
    overrides            \* self.overrides: path -> OverrideSource

enforce_vars == <<heap, messages, given, call_args, self_cfg, pc, target,
                  per_message_target, msgs, preserved, preserved_ids, prunable,
                  removed_accumulator, preserved_tokens, prunable_tokens,
                  max_iterations, iterations, result, raised>>

keyboard_vars == <<should_stop, current_key, listener_thread, ch, next_char,
                   stdin, stdin_eof, is_tty, raw_mode, keys_typed, returned,
                   last_call, esc_typed, esc_reported>>

config_vars == <<config_dict, override_data, environ, cli_args, cfg_pc,
                 cfg_result, cli_done, overrides>>

select_vars == <<avg_tokens_per_word, query, documents, pool_messages,
                 tools_outputs, token_budget, sel_pc, items, idx, picked,
                 selected, used_tokens>>

-----------------------------------------------------------------------------
(* Bounds of the model *)

MaxLen == 7
MaxShort == 3
MaxDocs == 2
MaxBudget == 4

(* Program constants *)

DefaultContextLimit == 65536
DefaultSafetyMargin == 512
MinTarget == 1024
MinPerMessage == 512
MaxPerMessage == 8192
PlanningKeep == 3
RecentWindow == 4
ExcerptChars == 400
Now == 10

-----------------------------------------------------------------------------
(* Generic helpers *)

Max(a, b) == IF a >= b THEN a ELSE b
Min(a, b) == IF a <= b THEN a ELSE b

RECURSIVE SumSeq(_)
SumSeq(s) == IF s = <<>> THEN 0 ELSE Head(s) + SumSeq(Tail(s))

Range(s) == {s[i] : i \in 1..Len(s)}

\* Python's s[-n:]
LastN(s, n) == SubSeq(s, Max(1, Len(s) - n + 1), Len(s))

\* Python's list.insert(i, x) with a 0-based index i <= len
InsertAt(s, i, x) == SubSeq(s, 1, i) \o <<x>> \o SubSeq(s, i + 1, Len(s))

\* exact rationals [n, d] with d > 0
Rat(n, d) == [n |-> n, d |-> d]
RatLess(a, b) == a.n * b.d < b.n * a.d
RatEq(a, b) == a.n * b.d = b.n * a.d
RatGeq(a, b) == ~RatLess(a, b)

-----------------------------------------------------------------------------
(* Messages.  content is plain text or a structured payload; tok is the    *)
(* number of cl100k tokens of the text (of the JSON dump for a payload).   *)
(* thinking and tool_calls are given by the token count of their text, 0   *)
(* standing for None / empty (both falsy in the code).                     *)

Text(n) == [kind |-> "str", tok |-> n]
Payload(n) == [kind |-> "struct", tok |-> n]

Msg(r, c, th, tc) == [role |-> r, content |-> c, thinking |-> th, tool_calls |-> tc]

SystemPrompt == Msg("system", Text(20), 0, 0)
UserTurn == Msg("user", Text(700), 0, 0)
PlanningTurn == Msg("assistant", Text(300), 200, 0)
ToolCallTurn == Msg("assistant", Payload(250), 0, 50)
ToolResult == Msg("tool", Text(250), 0, 0)

\* the messages of the long conversations, and those of the short ones
Palette == {SystemPrompt, UserTurn, PlanningTurn, ToolCallTurn}
FullPalette == Palette \cup {ToolResult}

\* messages that are large against the default limit
HugeUserTurn == Msg("user", Text(70000), 0, 0)
HugePlanningTurn == Msg("assistant", Text(9000), 70000, 0)
HugePayloadTurn == Msg("assistant", Payload(9000), 0, 0)
HugePalette == {HugeUserTurn, HugePlanningTurn, HugePayloadTurn}

None == [given |-> FALSE, v |-> 0]
Some(n) == [given |-> TRUE, v |-> n]

\* Python truthiness of an optional int: None and 0 are falsy
Truthy(o) == o.given /\ o.v # 0

-----------------------------------------------------------------------------
(* Token estimation *)

\* tokens of "\n".join(parts): the parts' tokens plus one per separator
estimate_tokens_for_message(m) ==
    1 + 1 + m.content.tok
      + (IF m.thinking # 0 THEN 1 + m.thinking ELSE 0)
      + (IF m.tool_calls # 0 THEN 1 + m.tool_calls ELSE 0)

estimate_tokens_for_messages(h, refs) ==
    SumSeq([i \in 1..Len(refs) |-> estimate_tokens_for_message(h[refs[i]])])

\* tools.file_tools.truncate_text_by_tokens: a text of at most max_tokens
truncate_text_by_tokens(c, max_tokens) ==
    IF c.tok <= max_tokens THEN c ELSE Text(max_tokens)

-----------------------------------------------------------------------------
(* enforce_context_limit, lines 127-131 *)

ResolveLimit(call, self) ==
    IF Truthy(call.model_context_limit) THEN call.model_context_limit.v
    ELSE IF Truthy(self.model_context_limit) THEN self.model_context_limit.v
    ELSE DefaultContextLimit

ResolveMargin(call, self) ==
    IF call.safety_margin.given THEN call.safety_margin.v
    ELSE self.context_safety_margin

ResolveTarget(call, self) ==
    Max(MinTarget, ResolveLimit(call, self) - ResolveMargin(call, self))

PerMessageTargetUnclamped(t) == t \div 8

PerMessageTarget(t) == Min(MaxPerMessage, Max(MinPerMessage, t \div 8))

(* line 134: msgs = [m.copy() for m in messages] *)

CopyHeap(h, ms) == h \o [i \in 1..Len(ms) |-> h[ms[i]]]

CopyRefsAliased(h, ms) == ms

CopyRefs(h, ms) == [i \in 1..Len(ms) |-> Len(h) + i]

(* lines 146-153: truncate long plain-text contents of the working copy *)

TruncateContents(h, refs, pmt) ==
    [r \in 1..Len(h) |->
        IF r \in Range(refs) /\ h[r].content.kind = "str" /\ h[r].content.tok > pmt
        THEN [h[r] EXCEPT !.content = truncate_text_by_tokens(h[r].content, pmt)]
        ELSE h[r]]

(* lines 160-163 *)

ByRole(h, refs, r) == SelectSeq(refs, LAMBDA x : h[x].role = r)

system_msgs(h, refs) == ByRole(h, refs, "system")
user_msgs(h, refs) == ByRole(h, refs, "user")
assistant_msgs(h, refs) == ByRole(h, refs, "assistant")

(* lines 175-177 *)

planning_msgs(h, refs) ==
    SelectSeq(assistant_msgs(h, refs), LAMBDA x : h[x].thinking # 0)

(* lines 167-177: system messages, first user, recent planning messages *)

PreservedEssentialsTwoPlans(h, refs) ==
    system_msgs(h, refs)
      \o (IF user_msgs(h, refs) # <<>> THEN <<Head(user_msgs(h, refs))>> ELSE <<>>)
      \o LastN(planning_msgs(h, refs), PlanningKeep - 1)

PreservedEssentials(h, refs) ==
    system_msgs(h, refs)
      \o (IF user_msgs(h, refs) # <<>> THEN <<Head(user_msgs(h, refs))>> ELSE <<>>)
      \o LastN(planning_msgs(h, refs), PlanningKeep)

(* lines 180-184: the last user message, unless already preserved *)

WithLastUserAlways(h, refs, pres) ==
    LET u == user_msgs(h, refs)
    IN  Append(pres, u[Len(u)])

WithLastUser(h, refs, pres) ==
    LET u == user_msgs(h, refs)
        last == u[Len(u)]
    IN  IF last \in Range(pres) THEN pres ELSE Append(pres, last)

(* line 187 *)

recent_msgs_short(refs) == LastN(refs, RecentWindow - 1)

recent_msgs(refs) == LastN(refs, RecentWindow)

(* lines 188-191: the recency window, each message unless already preserved *)

RECURSIVE WithRecent(_, _)
WithRecent(pres, recent) ==
    IF recent = <<>> THEN pres
    ELSE WithRecent(IF Head(recent) \in Range(pres) THEN pres
                    ELSE Append(pres, Head(recent)),
                    Tail(recent))

(* line 194 *)

Prunable(refs, ids) == SelectSeq(refs, LAMBDA x : x \notin ids)

(* line 209: the loop condition *)

PruneMoreIgnoringPreserved(pr, ptoks, prtoks, t) == pr # <<>> /\ prtoks > t

PruneMoreAll(pr, ptoks, prtoks, t) == pr # <<>>

PruneMore(pr, ptoks, prtoks, t) == pr # <<>> /\ (ptoks + prtoks) > t

(* line 207 *)

MaxIterationsOne(pr) == 1

MaxIterations(pr) == Max(1000, Len(pr) * 2)

(* lines 221-222 *)

CompressedUnordered(refs, pres, ids, pr) == pres \o pr

Compressed(refs, pres, ids, pr) ==
    SelectSeq(refs, LAMBDA x : x \in (ids \cup Range(pr)))

(* line 225 *)

NeedsNoticeAlways(removed) == TRUE

NeedsNotice(removed) == removed # <<>>

(* lines 227-244: the summary notice.  An excerpt is "[role] " plus at most *)
(* 400 characters of the content, so at most 400 tokens of it.              *)

ExcerptTok(m) == 3 + Min(m.content.tok, ExcerptChars)

SummaryTok(h, removed) ==
    12 + SumSeq([i \in 1..Len(removed) |-> ExcerptTok(h[removed[i]]) + 1])

Notice(h, removed, pmt) ==
    Msg("system",
        Text(6 + truncate_text_by_tokens(Text(SummaryTok(h, removed)), pmt).tok),
        0, 0)

(* lines 247-255 *)

InsertIndexFront(h, refs, comp) == 0

InsertIndex(h, refs, comp) ==
    IF system_msgs(h, refs) # <<>>
    THEN LET sys == {i \in 1..Len(comp) : h[comp[i]].role = "system"}
         IN  IF sys = {} THEN 0 ELSE CHOOSE i \in sys : \A j \in sys : j <= i
    ELSE 0

-----------------------------------------------------------------------------
(* The calls of enforce_context_limit that are modelled *)

DefaultSelf ==
    [model_context_limit |-> None, context_safety_margin |-> DefaultSafetyMargin]

\* long conversations under a tight limit (target 1024)
LongCalls ==
    {[given |-> g,
      args |-> [model_context_limit |-> Some(1536), safety_margin |-> None],
      self |-> DefaultSelf] :
        g \in UNION {[1..n -> Palette] : n \in 0..MaxLen}}

\* short conversations under every way of giving the limit and the margin
ShortCalls ==
    {[given |-> g,
      args |-> [model_context_limit |-> l, safety_margin |-> m],
      self |-> [model_context_limit |-> sl,
                context_safety_margin |-> DefaultSafetyMargin]] :
        g \in UNION {[1..n -> FullPalette] : n \in 0..MaxShort},
        l \in {None, Some(0), Some(1536)},
        m \in {None, Some(0)},
        sl \in {None, Some(2048)}}

\* short conversations of large messages under small, default and large limits
HugeCalls ==
    {[given |-> g,
      args |-> [model_context_limit |-> l, safety_margin |-> None],
      self |-> DefaultSelf] :
        g \in UNION {[1..n -> HugePalette] : n \in 0..MaxShort},
        l \in {None, Some(8192), Some(131072)}}

InitEnforce ==
    /\ \E c \in LongCalls \cup ShortCalls \cup HugeCalls :
           /\ given = c.given
           /\ call_args = c.args
           /\ self_cfg = c.self
    /\ heap = given
    /\ messages = [i \in 1..Len(given) |-> i]
    /\ pc = "call"
    /\ target = 0
    /\ per_message_target = 0
    /\ msgs = <<>>
    /\ preserved = <<>>
    /\ preserved_ids = [bound |-> FALSE]
    /\ prunable = <<>>
    /\ removed_accumulator = <<>>
    /\ preserved_tokens = 0
    /\ prunable_tokens = 0
    /\ max_iterations = 0
    /\ iterations = 0
    /\ result = <<>>
    /\ raised = "none"
    \* select_context is not running
    /\ avg_tokens_per_word = Rat(1, 1)
    /\ query = <<>>
    /\ documents = <<>>
    /\ pool_messages = <<>>
    /\ tools_outputs = <<>>
    /\ token_budget = 0
    /\ sel_pc = "idle"
    /\ items = <<>>
    /\ idx = 0
    /\ picked = <<>>
    /\ selected = <<>>
    /\ used_tokens = 0
    \* no KeyboardListener is in use
    /\ should_stop = FALSE
    /\ current_key = [some |-> FALSE, s |-> <<>>]
    /\ listener_thread = "none"
    /\ ch = ""
    /\ next_char = ""
    /\ stdin = <<>>
    /\ stdin_eof = FALSE
    /\ is_tty = FALSE
    /\ raw_mode = FALSE
    /\ keys_typed = 0
    /\ returned = [by |-> "nothing"]
    /\ last_call = "none"
    /\ esc_typed = 0
    /\ esc_reported = 0
    \* apply_overrides is not running
    /\ config_dict = <<>>
    /\ override_data = <<>>
    /\ environ = <<>>
    /\ cli_args = <<>>
    /\ cfg_pc = "idle"
    /\ cfg_result = <<>>
    /\ cli_done = 0
    /\ overrides = <<>>

(* lines 127-140: resolve the target, copy, the print of msgs[1], fast path *)
EnforceEntry ==
    /\ pc = "call"
    /\ target' = ResolveTarget(call_args, self_cfg)
    /\ heap' = CopyHeap(heap, messages)
    /\ msgs' = CopyRefs(heap, messages)
    /\ IF Len(msgs') < 2
       THEN /\ raised' = "IndexError"
            /\ pc' = "raised"
            /\ result' = result
       ELSE /\ raised' = raised
            /\ IF estimate_tokens_for_messages(heap', msgs') <= target'
               THEN pc' = "returned" /\ result' = msgs'
               ELSE pc' = "truncate" /\ result' = result
    /\ UNCHANGED <<messages, given, call_args, self_cfg, per_message_target,
                   preserved, preserved_ids, prunable, removed_accumulator,
                   preserved_tokens, prunable_tokens, max_iterations, iterations,
                   select_vars, keyboard_vars,
                   config_vars>>

(* lines 145-157: Stage 1, per-message truncation *)
TruncateStage ==
    /\ pc = "truncate"
    /\ per_message_target' = PerMessageTarget(target)
    /\ heap' = TruncateContents(heap, msgs, per_message_target')
    /\ IF estimate_tokens_for_messages(heap', msgs) <= target
       THEN pc' = "returned" /\ result' = msgs
       ELSE pc' = "preserve" /\ result' = result
    /\ UNCHANGED <<messages, given, call_args, self_cfg, target, msgs,
                   preserved, preserved_ids, prunable, removed_accumulator,
                   preserved_tokens, prunable_tokens, max_iterations, iterations,
                   raised, select_vars, keyboard_vars,
                   config_vars>>

(* lines 160-207: Stage 2, the preserved and prunable lists.  preserved_ids *)
(* is bound at line 181 only, inside `if user_msgs`; line 189 reads it.     *)
BuildPreserved ==
    /\ pc = "preserve"
    /\ IF user_msgs(heap, msgs) = <<>>
       THEN /\ preserved' = PreservedEssentials(heap, msgs)
            /\ raised' = "UnboundLocalError"
            /\ pc' = "raised"
            /\ UNCHANGED <<preserved_ids, prunable, preserved_tokens,
                           prunable_tokens, max_iterations>>
       ELSE LET pres == WithRecent(
                            WithLastUser(heap, msgs, PreservedEssentials(heap, msgs)),
                            recent_msgs(msgs))
                pr == Prunable(msgs, Range(pres))
            IN  /\ preserved' = pres
                /\ preserved_ids' = [bound |-> TRUE, ids |-> Range(pres)]
                /\ prunable' = pr
                /\ preserved_tokens' = estimate_tokens_for_messages(heap, pres)
                /\ prunable_tokens' = estimate_tokens_for_messages(heap, pr)
                /\ max_iterations' = MaxIterations(pr)
                /\ pc' = "prune"
                /\ raised' = raised
    /\ UNCHANGED <<heap, messages, given, call_args, self_cfg, target,
                   per_message_target, msgs, removed_accumulator, iterations,
                   result, select_vars, keyboard_vars,
                   config_vars>>

(* lines 209-218: one iteration of the pruning loop *)
PruneStep ==
    /\ pc = "prune"
    /\ PruneMore(prunable, preserved_tokens, prunable_tokens, target)
    /\ IF iterations >= max_iterations
       THEN /\ pc' = "capped"
            /\ UNCHANGED <<prunable, removed_accumulator, prunable_tokens,
                           iterations>>
       ELSE /\ prunable' = Tail(prunable)
            /\ removed_accumulator' = Append(removed_accumulator, Head(prunable))
            /\ prunable_tokens' =
                   prunable_tokens - estimate_tokens_for_message(heap[Head(prunable)])
            /\ iterations' = iterations + 1
            /\ pc' = pc
    /\ UNCHANGED <<heap, messages, given, call_args, self_cfg, target,
                   per_message_target, msgs, preserved, preserved_ids,
                   preserved_tokens, max_iterations, result, raised, select_vars, keyboard_vars,
                   config_vars>>

(* lines 220-257: reassemble in chronological order, insert the notice *)
Reassemble ==
    /\ pc \in {"prune", "capped"}
    /\ pc = "prune"
           => ~PruneMore(prunable, preserved_tokens, prunable_tokens, target)
    /\ LET compressed == Compressed(msgs, preserved, preserved_ids.ids, prunable)
       IN  IF NeedsNotice(removed_accumulator)
           THEN /\ heap' = Append(heap, Notice(heap, removed_accumulator,
                                                per_message_target))
                /\ result' = InsertAt(compressed,
                                      InsertIndex(heap, msgs, compressed),
                                      Len(heap) + 1)
           ELSE /\ heap' = heap
                /\ result' = compressed
    /\ pc' = "returned"
    /\ UNCHANGED <<messages, given, call_args, self_cfg, target,
                   per_message_target, msgs, preserved, preserved_ids, prunable,
                   removed_accumulator, preserved_tokens, prunable_tokens,
                   max_iterations, iterations, raised, select_vars, keyboard_vars,
                   config_vars>>

NextEnforce ==
    \/ EnforceEntry
    \/ TruncateStage
    \/ BuildPreserved
    \/ PruneStep
    \/ Reassemble

-----------------------------------------------------------------------------
(* ContextSelector.  A text is the sequence of its words (text.split());    *)
(* its words are joined by single spaces.  Scores are exact rationals       *)
(* [n, d] with d > 0; time is counted in whole days.                        *)

Words == {"file", "File", "error", "a", "payments"}

\* len(w), in characters
WordLen(w) ==
    CASE w = "file" -> 4
      [] w = "File" -> 4
      [] w = "error" -> 5
      [] w = "a" -> 1
      [] w = "payments" -> 8

\* w.lower()
Lower(w) == IF w = "File" THEN "file" ELSE w

\* len(text), in characters
CharLen(text) ==
    IF text = <<>> THEN 0
    ELSE SumSeq([i \in 1..Len(text) |-> WordLen(text[i])]) + (Len(text) - 1)

\* values of the metadata field w; a Str is a text float() cannot parse
Num(n) == [kind |-> "num", v |-> n]
Str(x) == [kind |-> "str", v |-> x]
NoneValue == [kind |-> "none"]

\* pool elements: a plain text or a record (dict)
PlainText(ws) == [kind |-> "str", text |-> ws]
Record(d) == [kind |-> "dict", d |-> d]

(* lines 50-53: int() truncates, and the products here are >= 0 *)

estimate_tokens(text, f) == Max(1, (Len(text) * f.n) \div f.d)

(* lines 55-61 *)

lexical_score(q, text) ==
    LET q_words == {Lower(q[i]) : i \in 1..Len(q)}
        t_words == {Lower(text[i]) : i \in 1..Len(text)}
    IN  IF q_words = {} \/ t_words = {} THEN Rat(0, 1)
        ELSE Rat(Cardinality(q_words \cap t_words), Max(1, Cardinality(q_words)))

(* lines 63-71: ts and now in days, so days == age *)

recency_score(metadata) ==
    IF "ts" \notin DOMAIN metadata \/ metadata.ts = 0 THEN Rat(0, 1)
    ELSE Rat(1, 1 + Max(0, Now - metadata.ts))

(* lines 73-78: float(w), 0.0 when float() raises *)

importance_score(metadata) ==
    IF "w" \in DOMAIN metadata /\ metadata.w.kind = "num"
    THEN Rat(metadata.w.v, 1)
    ELSE Rat(0, 1)

(* lines 80-86: 0.7 * lex + 0.2 * rec + 0.1 * imp *)

score_item(text, metadata, q) ==
    LET lex == lexical_score(q, text)
        rec == recency_score(metadata)
        imp == importance_score(metadata)
    IN  Rat(7 * lex.n * rec.d * imp.d + 2 * rec.n * lex.d * imp.d
              + 1 * imp.n * lex.d * rec.d,
            10 * lex.d * rec.d * imp.d)

(* lines 107-114 *)

EntryText(d) ==
    IF "text" \in DOMAIN d /\ d.text # <<>> THEN d.text
    ELSE IF "content" \in DOMAIN d /\ d.content # <<>> THEN d.content
    ELSE <<>>

EntryMeta(d) == [k \in DOMAIN d \ {"text", "content"} |-> d[k]]

normalize(src, entry) ==
    IF entry.kind = "str"
    THEN [source |-> src, text |-> entry.text, metadata |-> <<>>]
    ELSE [source |-> src, text |-> EntryText(entry.d), metadata |-> EntryMeta(entry.d)]

(* lines 116-124 *)

NormalizeAll(docs, ms, ts) ==
    [i \in 1..Len(docs) |-> normalize("document", docs[i])]
      \o [i \in 1..Len(ms) |-> normalize("message", ms[i])]
      \o [i \in 1..Len(ts) |-> normalize("tool", ts[i])]

Scored(its, q) ==
    [i \in 1..Len(its) |->
        [source |-> its[i].source, text |-> its[i].text,
         metadata |-> its[i].metadata,
         score |-> score_item(its[i].text, its[i].metadata, q)]]

(* line 127: sort(key=(score, -len(text)), reverse=True), a stable sort *)

KeyLess(a, b) ==
    \/ RatLess(a.score, b.score)
    \/ RatEq(a.score, b.score) /\ CharLen(a.text) > CharLen(b.text)

\* x goes before the first element whose key is smaller than its own
RECURSIVE InsertSorted(_, _)
InsertSorted(s, x) ==
    IF s = <<>> THEN <<x>>
    ELSE IF KeyLess(Head(s), x) THEN <<x>> \o s
    ELSE <<Head(s)>> \o InsertSorted(Tail(s), x)

RECURSIVE SortFrom(_, _)
SortFrom(acc, rest) ==
    IF rest = <<>> THEN acc
    ELSE SortFrom(InsertSorted(acc, Head(rest)), Tail(rest))

SortItemsNot(its) == its

SortItems(its) == SortFrom(<<>>, its)

(* line 134 *)

FitsWhileBudgetLeft(used, est, budget) == used < budget

Fits(used, est, budget) == ~(used + est > budget)

(* line 136 *)

HighlyRelevantAlways(score) == TRUE

HighlyRelevant(score) == RatGeq(score, Rat(6, 10))

(* lines 139-140: words[: max(1, int(remaining / max(1, factor)))] *)

TruncatedCount(remaining, f) ==
    Max(1, IF f.n > f.d THEN (remaining * f.d) \div f.n ELSE remaining)

Truncated(text, remaining, f) ==
    SubSeq(text, 1, Min(Len(text), TruncatedCount(remaining, f)))

(* line 151: `continue`, the scan goes on after an item that did not fit *)

ContinueScanBreak(p) == "break"

ContinueScan(p) == p

SelectedEntry(it, text, est) ==
    [source |-> it.source, text |-> text, metadata |-> it.metadata,
     score |-> it.score, est_tokens |-> est]

-----------------------------------------------------------------------------
(* The calls of select_context that are modelled *)

Queries == {<<"file", "error">>, <<"File">>, <<>>}

ErrorLog == Record([text |-> <<"error", "File", "a">>, ts |-> Now])
ReleaseNotes == Record([text |-> <<"payments">>, ts |-> Now - 3])
Chatter == PlainText(<<"a", "a", "a">>)
Invoice == PlainText(<<"payments">>)
Weighted == Record([content |-> <<"file", "a", "a", "a", "a">>, w |-> Num(1)])

DocPalette == {ErrorLog, ReleaseNotes, Chatter, Invoice, Weighted}

UserQuestion == PlainText(<<"file", "error">>)
ToolOutput == Record([text |-> <<>>, content |-> <<"error">>, w |-> Str("high")])
\* an entry stamped with the epoch, and one stamped 5 days ahead
Epoch == Record([text |-> <<"a">>, ts |-> 0, w |-> NoneValue])
Scheduled == Record([content |-> <<"payments">>, ts |-> Now + 5])

Factors == {Rat(1, 1), Rat(2, 1), Rat(1, 2)}

InitSelect ==
    /\ avg_tokens_per_word \in Factors
    /\ query \in Queries
    /\ documents \in UNION {[1..n -> DocPalette] : n \in 0..MaxDocs}
    /\ pool_messages \in {<<>>, <<UserQuestion>>}
    /\ tools_outputs \in {<<>>, <<ToolOutput>>, <<Epoch>>, <<Scheduled>>}
    /\ token_budget \in 0..MaxBudget
    /\ sel_pc = "call"
    /\ items = <<>>
    /\ idx = 0
    /\ picked = <<>>
    /\ selected = <<>>
    /\ used_tokens = 0
    \* enforce_context_limit is not running
    /\ given = <<>>
    /\ call_args = [model_context_limit |-> None, safety_margin |-> None]
    /\ self_cfg = DefaultSelf
    /\ heap = <<>>
    /\ messages = <<>>
    /\ pc = "idle"
    /\ target = 0
    /\ per_message_target = 0
    /\ msgs = <<>>
    /\ preserved = <<>>
    /\ preserved_ids = [bound |-> FALSE]
    /\ prunable = <<>>
    /\ removed_accumulator = <<>>
    /\ preserved_tokens = 0
    /\ prunable_tokens = 0
    /\ max_iterations = 0
    /\ iterations = 0
    /\ result = <<>>
    /\ raised = "none"
    \* no KeyboardListener is in use
    /\ should_stop = FALSE
    /\ current_key = [some |-> FALSE, s |-> <<>>]
    /\ listener_thread = "none"
    /\ ch = ""
    /\ next_char = ""
    /\ stdin = <<>>
    /\ stdin_eof = FALSE
    /\ is_tty = FALSE
    /\ raw_mode = FALSE
    /\ keys_typed = 0
    /\ returned = [by |-> "nothing"]
    /\ last_call = "none"
    /\ esc_typed = 0
    /\ esc_reported = 0
    \* apply_overrides is not running
    /\ config_dict = <<>>
    /\ override_data = <<>>
    /\ environ = <<>>
    /\ cli_args = <<>>
    /\ cfg_pc = "idle"
    /\ cfg_result = <<>>
    /\ cli_done = 0
    /\ overrides = <<>>

(* lines 101-130: normalize the pools, score, sort *)
RankItems ==
    /\ sel_pc = "call"
    /\ items' = SortItems(Scored(NormalizeAll(documents, pool_messages,
                                              tools_outputs), query))
    /\ idx' = 1
    /\ selected' = <<>>
    /\ picked' = <<>>
    /\ used_tokens' = 0
    /\ sel_pc' = "scan"
    /\ UNCHANGED <<avg_tokens_per_word, query, documents, pool_messages,
                   tools_outputs, token_budget, enforce_vars,
                   keyboard_vars, config_vars>>

(* lines 132-161: one iteration of the scan *)
ScanItem ==
    /\ sel_pc = "scan"
    /\ idx <= Len(items)
    /\ LET it == items[idx]
           est == estimate_tokens(it.text, avg_tokens_per_word)
       IN  IF ~Fits(used_tokens, est, token_budget)
           THEN /\ IF HighlyRelevant(it.score) /\ used_tokens < token_budget
                   THEN LET sel_text == Truncated(it.text,
                                                  token_budget - used_tokens,
                                                  avg_tokens_per_word)
                            sel_est == estimate_tokens(sel_text, avg_tokens_per_word)
                        IN  /\ selected' = Append(selected,
                                                  SelectedEntry(it, sel_text, sel_est))
                            /\ picked' = Append(picked, idx)
                            /\ used_tokens' = used_tokens + sel_est
                   ELSE UNCHANGED <<selected, picked, used_tokens>>
                /\ sel_pc' = ContinueScan(sel_pc)
           ELSE /\ selected' = Append(selected, SelectedEntry(it, it.text, est))
                /\ picked' = Append(picked, idx)
                /\ used_tokens' = used_tokens + est
                /\ sel_pc' = IF used_tokens' >= token_budget THEN "break" ELSE sel_pc
    /\ idx' = idx + 1
    /\ UNCHANGED <<avg_tokens_per_word, query, documents, pool_messages,
                   tools_outputs, token_budget, items, enforce_vars,
                   keyboard_vars, config_vars>>

(* line 163 *)
ReturnSelected ==
    /\ sel_pc \in {"scan", "break"}
    /\ sel_pc = "scan" => idx > Len(items)
    /\ sel_pc' = "returned"
    /\ UNCHANGED <<avg_tokens_per_word, query, documents, pool_messages,
                   tools_outputs, token_budget, items, idx, picked, selected,
                   used_tokens, enforce_vars,
                   keyboard_vars, config_vars>>

NextSelect ==
    \/ RankItems
    \/ ScanItem
    \/ ReturnSelected

-----------------------------------------------------------------------------
(* Specifications: one per subsystem, the other subsystem not running *)

vars == <<enforce_vars, select_vars, keyboard_vars,
                   config_vars>>

SpecEnforce == InitEnforce /\ [][NextEnforce]_vars

SpecSelect == InitSelect /\ [][NextSelect]_vars

-----------------------------------------------------------------------------
(* Properties of enforce_context_limit *)

Returned == pc = "returned"

\* Stage 2 ran to its end and the call returned the reassembled list
ReturnedByPruning == pc = "returned" /\ preserved_ids.bound

GivenEstimate ==
    SumSeq([i \in 1..Len(given) |-> estimate_tokens_for_message(given[i])])

\* position in the working copy of a reference of the working copy
PosInMsgs(r) == CHOOSE k \in 1..Len(msgs) : msgs[k] = r

\* the entries of the returned list that are copies of input messages
FromInput(s) == SelectSeq(s, LAMBDA r : r \in Range(msgs))

\* the entries of the returned list that were synthesized by the call
Synthesized(s) == SelectSeq(s, LAMBDA r : r \notin Range(msgs))

SameFields(a, b) ==
    /\ a.role = b.role
    /\ a.content = b.content
    /\ a.thinking = b.thinking
    /\ a.tool_calls = b.tool_calls

\* C1: whenever the batch estimate of the input is <= target, the call
\* returns a list of the same length whose i-th message has the same role,
\* content, thinking and tool_calls as the i-th input message.
C1_FastPathIdempotent ==
    (pc # "call" /\ GivenEstimate <= ResolveTarget(call_args, self_cfg))
        => /\ pc = "returned"
           /\ Len(result) = Len(given)
           /\ \A i \in 1..Len(given) : SameFields(heap[result[i]], given[i])

\* C2: the call never ends by raising, whatever the length and roles of the
\* input.
C2_NeverRaises == raised = "none" /\ pc # "raised"

\* C3: the messages of the output that come from the input appear in the
\* output in the same relative order as in the input.
C3_OrderPreserved ==
    Returned =>
        \A i, j \in 1..Len(result) :
            (i < j /\ result[i] \in Range(msgs) /\ result[j] \in Range(msgs))
                => PosInMsgs(result[i]) < PosInMsgs(result[j])

C3_Witness ==
    /\ ReturnedByPruning
    /\ removed_accumulator # <<>>
    /\ \E i, j \in 1..Len(preserved) :
           i < j /\ PosInMsgs(preserved[i]) > PosInMsgs(preserved[j])
    /\ prunable # <<>>

FirstUserPos ==
    CHOOSE k \in 1..Len(given) :
        /\ given[k].role = "user"
        /\ \A j \in 1..(k - 1) : given[j].role # "user"

\* C4: when the call returns from Stage 2, every system message of the
\* input, the first user message of the input and the last 4 messages of the
\* input are present in the output.
C4_PreservedSetIncluded ==
    ReturnedByPruning =>
        \A k \in 1..Len(given) :
            (\/ given[k].role = "system"
             \/ k = FirstUserPos
             \/ k > Len(given) - 4)
                => msgs[k] \in Range(result)

C4_Witness ==
    /\ ReturnedByPruning
    /\ removed_accumulator # <<>>
    /\ \E k \in 1..Len(given) : given[k].role = "system" /\ k <= Len(given) - 4
    /\ FirstUserPos <= Len(given) - 4
    /\ GivenEstimate > 2 * target

\* C5: in every state of a call the caller's list has its length and every
\* message of it has the role, content, thinking and tool_calls it was
\* passed with.
C5_CallerMessagesUntouched ==
    /\ Len(messages) = Len(given)
    /\ \A i \in 1..Len(given) : SameFields(heap[messages[i]], given[i])

C5_Witness ==
    /\ ReturnedByPruning
    /\ removed_accumulator # <<>>
    /\ \E i \in 1..Len(msgs) : heap[msgs[i]].content # given[i].content

\* C6: the output is a sub-list of the working copy (no entry twice) plus at
\* most one synthesized system message, and there is exactly one synthesized
\* message if and only if some input message is missing from the output.
C6_OutputShape ==
    Returned =>
        /\ \A i, j \in 1..Len(result) : i # j => result[i] # result[j]
        /\ Len(FromInput(result)) <= Len(given)
        /\ Len(Synthesized(result)) <= 1
        /\ \A r \in Range(Synthesized(result)) : heap[r].role = "system"
        /\ (Len(Synthesized(result)) = 1)
               <=> (\E k \in 1..Len(msgs) : msgs[k] \notin Range(result))

C6_Witness ==
    /\ ReturnedByPruning
    /\ Len(Synthesized(result)) = 1
    /\ Len(FromInput(result)) < Len(given)

C6_WitnessNoRemoval ==
    /\ ReturnedByPruning
    /\ Len(result) = Len(given)

\* C7: when the call returns from Stage 2 and the preserved messages alone
\* estimate to at most target, the output without the synthesized summary
\* estimates to at most target.
C7_BudgetAfterPruning ==
    (ReturnedByPruning /\ estimate_tokens_for_messages(heap, preserved) <= target)
        => estimate_tokens_for_messages(heap, FromInput(result)) <= target

C7_Witness ==
    /\ ReturnedByPruning
    /\ estimate_tokens_for_messages(heap, preserved) <= target
    /\ removed_accumulator # <<>>
    /\ prunable # <<>>

-----------------------------------------------------------------------------
(* Properties of select_context *)

SelectReturned == sel_pc = "returned"

\* the item a returned entry was made from
ItemOf(i) == items[picked[i]]

IsTruncated(i) == selected[i].text # ItemOf(i).text

TotalEstTokens == SumSeq([i \in 1..Len(selected) |-> selected[i].est_tokens])

\* C8: with the default factor 1.0 and a budget >= 0, the est_tokens of the
\* returned items sum to at most token_budget, also when a truncated item
\* is among them.
C8_BudgetCompliance ==
    (SelectReturned /\ avg_tokens_per_word = Rat(1, 1) /\ token_budget >= 0)
        => TotalEstTokens <= token_budget

C8_Witness ==
    /\ SelectReturned
    /\ avg_tokens_per_word = Rat(1, 1)
    /\ Len(selected) >= 2
    /\ \E i \in 1..Len(selected) : IsTruncated(i)
    /\ \E k \in 1..Len(items) : k \notin Range(picked)

\* C9: of two returned items with the same score, the one whose text has
\* the smaller word-based token estimate comes first.
C9_TieBreakByEstimate ==
    SelectReturned =>
        \A i, j \in 1..Len(selected) :
            (i < j /\ RatEq(selected[i].score, selected[j].score))
                => estimate_tokens(ItemOf(i).text, avg_tokens_per_word)
                       <= estimate_tokens(ItemOf(j).text, avg_tokens_per_word)

\* C10: the returned list is in non-increasing score order, whatever pools
\* its items come from.
C10_ScoreOrder ==
    SelectReturned =>
        \A i, j \in 1..Len(selected) :
            i < j => RatGeq(selected[i].score, selected[j].score)

C10_Witness ==
    /\ SelectReturned
    /\ query = <<"file", "error">>
    /\ documents = <<ReleaseNotes, ErrorLog>>
    /\ {selected[i].source : i \in 1..Len(selected)} = {"document", "message", "tool"}
    /\ \E i, j \in 1..Len(selected) :
           /\ i < j
           /\ selected[i].text = <<"error", "File", "a">>
           /\ selected[j].text = <<"payments">>

-----------------------------------------------------------------------------
(* Further properties of enforce_context_limit *)

\* the limit and margin of a call when every supplied value counts as
\* supplied, 0 included
SuppliedLimit ==
    IF call_args.model_context_limit.given THEN call_args.model_context_limit.v
    ELSE IF self_cfg.model_context_limit.given THEN self_cfg.model_context_limit.v
    ELSE DefaultContextLimit

SuppliedMargin ==
    IF call_args.safety_margin.given THEN call_args.safety_margin.v
    ELSE self_cfg.context_safety_margin

\* C11: target = max(1024, limit - margin) >= 1024, where limit is the
\* call-site value whenever one is supplied (0 included), otherwise the
\* instance default, otherwise 65536, and margin is the call-site value
\* whenever one is supplied (0 included), otherwise the instance default.
C11_TargetComputation ==
    pc # "call" =>
        /\ target = Max(MinTarget, SuppliedLimit - SuppliedMargin)
        /\ target >= MinTarget

\* Stage 1 has run in this call
TruncateStageDone == per_message_target # 0

\* the message at position i of the input had its content replaced
ContentReplaced(i) == heap[msgs[i]].content # given[i].content

\* C15: per_message_target = min(8192, max(512, target div 8)); Stage 1
\* replaces the content of exactly the messages whose plain-text content
\* estimates to more than per_message_target, leaves structured content,
\* role, thinking and tool_calls of every message unchanged and removes no
\* message; a call that returns after Stage 1 returns as many messages as it
\* was given.
C15_TruncationStage ==
    TruncateStageDone =>
        /\ per_message_target = Min(MaxPerMessage, Max(MinPerMessage, target \div 8))
        /\ Len(msgs) = Len(given)
        /\ \A i \in 1..Len(given) :
               /\ heap[msgs[i]].role = given[i].role
               /\ heap[msgs[i]].thinking = given[i].thinking
               /\ heap[msgs[i]].tool_calls = given[i].tool_calls
               /\ ContentReplaced(i)
                      <=> (given[i].content.kind = "str"
                           /\ given[i].content.tok > per_message_target)
               /\ ContentReplaced(i)
                      => (heap[msgs[i]].content.kind = "str"
                          /\ heap[msgs[i]].content.tok <= per_message_target)
        /\ (pc = "returned" /\ ~preserved_ids.bound)
               => (result = msgs /\ Len(result) = Len(given))

C15_Witness ==
    /\ TruncateStageDone
    /\ pc = "returned"
    /\ ~preserved_ids.bound
    /\ \E i \in 1..Len(given) : ContentReplaced(i)
    /\ \E i \in 1..Len(given) :
           given[i].content.kind = "struct" /\ given[i].content.tok > per_message_target

\* planning messages of the working copy older than the 3 most recent ones
OlderPlanning ==
    LET pl == planning_msgs(heap, msgs)
    IN  {pl[i] : i \in 1..(Len(pl) - PlanningKeep)}

\* C16: when the call returns from Stage 2, the last user message and the
\* (up to) 3 most recent assistant messages with a thinking trace are in the
\* output; an older assistant message with a thinking trace is in the
\* preserved list only if it is one of the last 4 messages.
C16_PlanningAndLastUser ==
    ReturnedByPruning =>
        /\ LET u == user_msgs(heap, msgs) IN u[Len(u)] \in Range(result)
        /\ Range(LastN(planning_msgs(heap, msgs), PlanningKeep)) \subseteq Range(result)
        /\ \A r \in OlderPlanning :
               r \in Range(preserved) => r \in Range(LastN(msgs, RecentWindow))

C16_Witness ==
    /\ ReturnedByPruning
    /\ Len(planning_msgs(heap, msgs)) > PlanningKeep
    /\ \E r \in OlderPlanning : r \in Range(removed_accumulator)
    /\ \E r \in Range(LastN(planning_msgs(heap, msgs), PlanningKeep)) :
           r \notin Range(LastN(msgs, RecentWindow))
    /\ Len(user_msgs(heap, msgs)) >= 2

\* the prunable list as first built at line 194
PrunableAtStart == SelectSeq(msgs, LAMBDA x : x \notin preserved_ids.ids)

\* the estimate of what is kept once the j oldest prunable messages are removed
KeptEstimate(j) ==
    estimate_tokens_for_messages(heap, preserved)
      + estimate_tokens_for_messages(heap,
            SubSeq(PrunableAtStart, j + 1, Len(PrunableAtStart)))

\* C17: the messages removed in Stage 2 are the k oldest prunable messages,
\* k being the least number for which preserved plus remaining prunable
\* tokens are <= target (all of them when there is none); no prunable
\* message survives while a newer one is removed.
C17_OldestFirstMinimal ==
    ReturnedByPruning =>
        LET k == Len(removed_accumulator)
        IN  /\ k <= Len(PrunableAtStart)
            /\ removed_accumulator = SubSeq(PrunableAtStart, 1, k)
            /\ \A j \in 0..(k - 1) : KeptEstimate(j) > target
            /\ k < Len(PrunableAtStart) => KeptEstimate(k) <= target
            /\ \A r \in Range(PrunableAtStart) \cap Range(result) :
                   \A x \in Range(removed_accumulator) : PosInMsgs(x) < PosInMsgs(r)

C17_Witness ==
    /\ ReturnedByPruning
    /\ Len(removed_accumulator) >= 1
    /\ Len(removed_accumulator) < Len(PrunableAtStart)
    /\ KeptEstimate(0) > target

\* C18: the Stage 2 loop stops after at most len(prunable) removals and the
\* iteration cap max(1000, 2 * len(prunable)) is never reached; the
\* reassembled sequence is what the call returns.
C18_LoopTermination ==
    preserved_ids.bound =>
        /\ pc # "capped"
        /\ iterations <= Len(PrunableAtStart)
        /\ iterations = Len(removed_accumulator)
        /\ iterations < Max(1000, 2 * Len(PrunableAtStart))
        /\ pc = "returned"
               => FromInput(result) =
                      SelectSeq(msgs, LAMBDA x : x \notin Range(removed_accumulator))

C18_Witness ==
    /\ ReturnedByPruning
    /\ iterations >= 2
    /\ iterations = Len(PrunableAtStart)
    /\ prunable = <<>>

\* the position of the synthesized notice in the returned list
NoticePos == CHOOSE k \in 1..Len(result) : result[k] \notin Range(msgs)

\* C19: a synthesized notice is a system-role message placed right after
\* the last system message of the input in the returned sequence, or at
\* the front when the input has no system message; the input messages,
\* system messages included, keep their relative order.
C19_SummaryPlacement ==
    (ReturnedByPruning /\ removed_accumulator # <<>>) =>
        /\ Len(Synthesized(result)) = 1
        /\ heap[result[NoticePos]].role = "system"
        /\ IF \E i \in 1..Len(given) : given[i].role = "system"
           THEN /\ NoticePos > 1
                /\ result[NoticePos - 1] \in Range(msgs)
                /\ heap[result[NoticePos - 1]].role = "system"
                /\ \A j \in (NoticePos + 1)..Len(result) :
                       heap[result[j]].role # "system"
           ELSE NoticePos = 1
        /\ FromInput(result) =
               SelectSeq(msgs, LAMBDA x : x \in Range(result))

C19_Witness ==
    /\ ReturnedByPruning
    /\ removed_accumulator # <<>>
    /\ NoticePos >= 3
    /\ NoticePos < Len(result)
    /\ heap[result[1]].role # "system"

C19_WitnessNoSystem ==
    /\ ReturnedByPruning
    /\ removed_accumulator # <<>>
    /\ \A i \in 1..Len(given) : given[i].role # "system"

-----------------------------------------------------------------------------
(* Further properties of select_context *)

\* the positions of the selected list that hold a truncated text
TruncatedPositions == {i \in 1..Len(selected) : IsTruncated(i)}

\* C20: for any factor avg_tokens_per_word > 0, at most one selected item
\* has a truncated text and it is the last item of the list, so that
\* nothing is added after a truncated item.
C20_SingleTruncation ==
    /\ Cardinality(TruncatedPositions) <= 1
    /\ \A i \in TruncatedPositions : i = Len(selected)

-----------------------------------------------------------------------------
(* KeyboardListener (mini_agent/utils/keyboard_utils.py) with the Unix     *)
(* listener.  A character is a string, a key string is a sequence of       *)
(* characters.  The sections under self._lock and the single reads and     *)
(* assignments of the listener thread are the atomic steps.                *)

MaxKeys == 3

ESC == "ESC"
Keys == {ESC, "[", "a"}

NoKey == [some |-> FALSE, s |-> <<>>]
KeyString(s) == [some |-> TRUE, s |-> s]

\* the Python values the two readers return
PyNone == [t |-> "None"]
PyBool(b) == [t |-> "bool", b |-> b]
PyStr(s) == [t |-> "str", s |-> s]

\* line 128: key == '\x1b' or (key and len(key) > 1 and key[0] == '\x1b');
\* `and` yields its first falsy operand, so None and '' come back as they are
EscExpression(key) ==
    IF key.some /\ key.s = <<ESC>> THEN PyBool(TRUE)
    ELSE IF ~key.some THEN PyNone
    ELSE IF key.s = <<>> THEN PyStr(<<>>)
    ELSE IF ~(Len(key.s) > 1) THEN PyBool(FALSE)
    ELSE PyBool(key.s[1] = ESC)

\* line 139
KeyValue(key) == IF key.some THEN PyStr(key.s) ELSE PyNone

\* self._listener_thread is not None and self._listener_thread.is_alive()
is_alive == listener_thread \notin {"none", "exited"}

\* sys.stdin.read(1): the next character, '' at end of input
ReadOne(in) == IF in # <<>> THEN Head(in) ELSE ""

InitKeyboard ==
    /\ should_stop = FALSE
    /\ current_key = NoKey
    /\ listener_thread = "none"
    /\ ch = ""
    /\ next_char = ""
    /\ stdin = <<>>
    /\ stdin_eof = FALSE
    /\ is_tty \in BOOLEAN
    /\ raw_mode = FALSE
    /\ keys_typed = 0
    /\ returned = [by |-> "nothing"]
    /\ last_call = "none"
    /\ esc_typed = 0
    /\ esc_reported = 0
    \* enforce_context_limit is not running
    /\ given = <<>>
    /\ call_args = [model_context_limit |-> None, safety_margin |-> None]
    /\ self_cfg = DefaultSelf
    /\ heap = <<>>
    /\ messages = <<>>
    /\ pc = "idle"
    /\ target = 0
    /\ per_message_target = 0
    /\ msgs = <<>>
    /\ preserved = <<>>
    /\ preserved_ids = [bound |-> FALSE]
    /\ prunable = <<>>
    /\ removed_accumulator = <<>>
    /\ preserved_tokens = 0
    /\ prunable_tokens = 0
    /\ max_iterations = 0
    /\ iterations = 0
    /\ result = <<>>
    /\ raised = "none"
    \* select_context is not running
    /\ avg_tokens_per_word = Rat(1, 1)
    /\ query = <<>>
    /\ documents = <<>>
    /\ pool_messages = <<>>
    /\ tools_outputs = <<>>
    /\ token_budget = 0
    /\ sel_pc = "idle"
    /\ items = <<>>
    /\ idx = 0
    /\ picked = <<>>
    /\ selected = <<>>
    /\ used_tokens = 0
    \* apply_overrides is not running
    /\ config_dict = <<>>
    /\ override_data = <<>>
    /\ environ = <<>>
    /\ cli_args = <<>>
    /\ cfg_pc = "idle"
    /\ cfg_result = <<>>
    /\ cli_done = 0
    /\ overrides = <<>>

(* lines 21-29 *)
start ==
    /\ last_call' = "start"
    /\ IF is_alive
       THEN UNCHANGED <<should_stop, current_key, listener_thread, ch, next_char>>
       ELSE /\ should_stop' = FALSE
            /\ current_key' = NoKey
            /\ listener_thread' = "setup"
            /\ ch' = ""
            /\ next_char' = ""
    /\ UNCHANGED <<stdin, stdin_eof, is_tty, raw_mode, keys_typed, returned,
                   esc_typed, esc_reported,
                   enforce_vars, select_vars, config_vars>>

(* lines 31-34 *)
stop ==
    /\ last_call' = "stop"
    /\ should_stop' = TRUE
    /\ UNCHANGED <<current_key, listener_thread, ch, next_char, stdin, stdin_eof,
                   is_tty, raw_mode, keys_typed, returned,
                   esc_typed, esc_reported,
                   enforce_vars, select_vars, config_vars>>

(* lines 119-128 *)
is_esc_pressed ==
    /\ returned' = [by |-> "is_esc_pressed", key |-> current_key,
                     value |-> EscExpression(current_key)]
    /\ current_key' = NoKey
    /\ esc_reported' = IF EscExpression(current_key) = PyBool(TRUE)
                       THEN esc_reported + 1 ELSE esc_reported
    /\ UNCHANGED <<should_stop, listener_thread, ch, next_char, stdin, stdin_eof,
                   is_tty, raw_mode, keys_typed,
                   last_call, esc_typed,
                   enforce_vars, select_vars, config_vars>>

(* lines 130-139 *)
get_current_key ==
    /\ returned' = [by |-> "get_current_key", key |-> current_key,
                     value |-> KeyValue(current_key)]
    /\ current_key' = NoKey
    /\ UNCHANGED <<should_stop, listener_thread, ch, next_char, stdin, stdin_eof,
                   is_tty, raw_mode, keys_typed,
                   last_call, esc_typed, esc_reported,
                   enforce_vars, select_vars, config_vars>>

(* the user types a key *)
KeyPress(c) ==
    /\ keys_typed < MaxKeys
    /\ ~stdin_eof
    /\ stdin' = Append(stdin, c)
    /\ keys_typed' = keys_typed + 1
    /\ esc_typed' = IF c = ESC THEN esc_typed + 1 ELSE esc_typed
    /\ UNCHANGED <<should_stop, current_key, listener_thread, ch, next_char,
                   stdin_eof, is_tty, raw_mode, returned,
                   last_call, esc_reported,
                   enforce_vars, select_vars, config_vars>>

(* stdin reaches its end *)
HangUp ==
    /\ ~stdin_eof
    /\ stdin_eof' = TRUE
    /\ UNCHANGED <<should_stop, current_key, listener_thread, ch, next_char,
                   stdin, is_tty, raw_mode, keys_typed, returned,
                   last_call, esc_typed, esc_reported,
                   enforce_vars, select_vars, config_vars>>

(* lines 51-58: tcgetattr raises when stdin is not a terminal, and the     *)
(* thread ends with nothing to restore                                      *)
ListenSetup ==
    /\ listener_thread = "setup"
    /\ IF is_tty
       THEN raw_mode' = TRUE /\ listener_thread' = "check_stop"
       ELSE raw_mode' = raw_mode /\ listener_thread' = "exited"
    /\ UNCHANGED <<should_stop, current_key, ch, next_char, stdin, stdin_eof,
                   is_tty, keys_typed, returned,
                   last_call, esc_typed, esc_reported,
                   enforce_vars, select_vars, config_vars>>

(* lines 60-63 and, on break, 85-91: the stop flag is read at the top of   *)
(* the loop only; leaving the loop restores the terminal                    *)
ListenCheckStop ==
    /\ listener_thread = "check_stop"
    /\ IF should_stop
       THEN raw_mode' = FALSE /\ listener_thread' = "exited"
       ELSE raw_mode' = raw_mode /\ listener_thread' = "read"
    /\ UNCHANGED <<should_stop, current_key, ch, next_char, stdin, stdin_eof,
                   is_tty, keys_typed, returned,
                   last_call, esc_typed, esc_reported,
                   enforce_vars, select_vars, config_vars>>

(* line 66: ch = sys.stdin.read(1) blocks until a character or the end of  *)
(* input is there                                                           *)
ListenRead ==
    /\ listener_thread = "read"
    /\ ~(stdin = <<>> /\ ~stdin_eof)
    /\ ch' = ReadOne(stdin)
    /\ stdin' = IF stdin # <<>> THEN Tail(stdin) ELSE stdin
    /\ listener_thread' = "store"
    /\ UNCHANGED <<should_stop, current_key, next_char, stdin_eof, is_tty,
                   raw_mode, keys_typed, returned,
                   last_call, esc_typed, esc_reported,
                   enforce_vars, select_vars, config_vars>>

(* lines 68-72 *)
ListenStore ==
    /\ listener_thread = "store"
    /\ current_key' = KeyString(IF ch = "" THEN <<>> ELSE <<ch>>)
    /\ listener_thread' = IF ch = ESC THEN "read_next" ELSE "check_stop"
    /\ UNCHANGED <<should_stop, ch, next_char, stdin, stdin_eof, is_tty,
                   raw_mode, keys_typed, returned,
                   last_call, esc_typed, esc_reported,
                   enforce_vars, select_vars, config_vars>>

(* line 75: next_char = sys.stdin.read(1) *)
ListenReadNext ==
    /\ listener_thread = "read_next"
    /\ ~(stdin = <<>> /\ ~stdin_eof)
    /\ next_char' = ReadOne(stdin)
    /\ stdin' = IF stdin # <<>> THEN Tail(stdin) ELSE stdin
    /\ listener_thread' = "store_sequence"
    /\ UNCHANGED <<should_stop, current_key, ch, stdin_eof, is_tty,
                   raw_mode, keys_typed, returned,
                   last_call, esc_typed, esc_reported,
                   enforce_vars, select_vars, config_vars>>

(* lines 76-81, written without the lock *)
ListenStoreSequence ==
    /\ listener_thread = "store_sequence"
    /\ current_key' = IF next_char # "" THEN KeyString(<<ch, next_char>>)
                      ELSE KeyString(<<ch>>)
    /\ listener_thread' = "check_stop"
    /\ UNCHANGED <<should_stop, ch, next_char, stdin, stdin_eof, is_tty,
                   raw_mode, keys_typed, returned,
                   last_call, esc_typed, esc_reported,
                   enforce_vars, select_vars, config_vars>>

(* lines 43-91: the listener thread *)
listen_unix ==
    \/ ListenSetup
    \/ ListenCheckStop
    \/ ListenRead
    \/ ListenStore
    \/ ListenReadNext
    \/ ListenStoreSequence

NextKeyboard ==
    \/ start
    \/ stop
    \/ is_esc_pressed
    \/ get_current_key
    \/ \E c \in Keys : KeyPress(c)
    \/ HangUp
    \/ listen_unix

SpecKeyboard == InitKeyboard /\ [][NextKeyboard]_vars

\* the listener thread runs whenever it has a step to take; nothing makes
\* the user type
SpecKeyboardFair == SpecKeyboard /\ WF_vars(listen_unix)

-----------------------------------------------------------------------------
(* Properties of KeyboardListener *)

\* C12: is_esc_pressed returns the boolean False whenever no key has been
\* recorded since the last read, and True only when the recorded key is ESC
\* or a sequence that starts with ESC; it never returns None or another
\* non-boolean value.
C12_EscPressedIsBool ==
    returned.by = "is_esc_pressed" =>
        /\ returned.value.t = "bool"
        /\ ~returned.key.some => returned.value = PyBool(FALSE)
        /\ returned.value = PyBool(TRUE)
               => (returned.key.some /\ returned.key.s # <<>>
                   /\ returned.key.s[1] = ESC)

\* C13: once stop() has been called on a started listener, the listener
\* thread eventually ends, whether or not another key is typed.
C13_StopEndsThread == (should_stop /\ is_alive) ~> ~is_alive

-----------------------------------------------------------------------------
(* ConfigOverride (mini_agent/config_override.py).  A dict is a function   *)
(* from keys to nodes, a node is a leaf value or a nested dict, a str is a *)
(* sequence of characters.                                                  *)

Leaf(v) == [kind |-> "leaf", v |-> v]
Dict(d) == [kind |-> "dict", d |-> d]

PyInt(i) == [t |-> "int", i |-> i]
PyFloat(n, d) == [t |-> "float", n |-> n, d |-> d]

\* d[k] = v
Put(d, k, v) == [x \in DOMAIN d \cup {k} |-> IF x = k THEN v ELSE d[x]]

\* str.lower, on the letters that occur
LowerStr(str) ==
    [i \in 1..Len(str) |->
        CASE str[i] = "T" -> "t" [] str[i] = "R" -> "r" [] str[i] = "U" -> "u"
          [] str[i] = "E" -> "e" [] str[i] = "O" -> "o" [] str[i] = "N" -> "n"
          [] OTHER -> str[i]]

DigitValue(c) ==
    CASE c = "0" -> 0 [] c = "1" -> 1 [] c = "2" -> 2 [] c = "3" -> 3
      [] c = "4" -> 4 [] c = "5" -> 5 [] c = "6" -> 6 [] c = "7" -> 7
      [] c = "8" -> 8 [] c = "9" -> 9

\* int(x) of a string of digits
RECURSIVE ParseInt(_)
ParseInt(str) ==
    IF str = <<>> THEN 0
    ELSE ParseInt(SubSeq(str, 1, Len(str) - 1)) * 10 + DigitValue(str[Len(str)])

\* float(x) of digits "." digits, as the fraction it denotes
ParseFloat(str) ==
    LET dot == CHOOSE i \in 1..Len(str) : str[i] = "."
        frac == SubSeq(str, dot + 1, Len(str))
    IN  PyFloat(ParseInt(SubSeq(str, 1, dot - 1) \o frac),
                ParseInt(<<"1">> \o [i \in 1..Len(frac) |-> "0"]))

(* lines 190-205 *)
convert_value(value, field_name) ==
    IF field_name \in {"enabled", "enable_file_tools", "enable_bash", "enable_note",
                       "enable_skills", "enable_mcp", "reasoning_split"}
    THEN PyBool(LowerStr(value) \in {<<"t", "r", "u", "e">>, <<"1">>,
                                     <<"y", "e", "s">>, <<"o", "n">>})
    ELSE IF field_name \in {"max_steps", "initial_delay", "max_delay",
                            "exponential_base", "max_retries"}
    THEN IF "." \in Range(value) THEN ParseFloat(value) ELSE PyInt(ParseInt(value))
    ELSE PyStr(value)

(* lines 29-58, the variables that are modelled, in the order of the dict *)
ENV_VAR_MAPPING ==
    << <<"MINI_AGENT_MODEL", <<"llm", "model">> >>,
       <<"MINI_AGENT_RETRY_ENABLED", <<"llm", "retry", "enabled">> >>,
       <<"MINI_AGENT_MAX_RETRIES", <<"llm", "retry", "max_retries">> >>,
       <<"MINI_AGENT_MAX_STEPS", <<"agent", "max_steps">> >> >>

(* lines 221-228; the nodes on the way are dicts in every modelled call *)
RECURSIVE set_nested_value(_, _, _)
set_nested_value(data, path_parts, value) ==
    IF Len(path_parts) = 1 THEN Put(data, path_parts[1], value)
    ELSE LET part == path_parts[1]
             current == IF part \in DOMAIN data THEN data[part].d ELSE <<>>
         IN  Put(data, part, Dict(set_nested_value(current, Tail(path_parts), value)))

(* lines 207-219 *)
RECURSIVE deep_merge_keep_base(_, _)
deep_merge_keep_base(base, override) ==
    [key \in DOMAIN base \cup DOMAIN override |->
        IF key \notin DOMAIN base THEN override[key]
        ELSE IF key \in DOMAIN override
                /\ base[key].kind = "dict" /\ override[key].kind = "dict"
        THEN Dict(deep_merge_keep_base(base[key].d, override[key].d))
        ELSE base[key]]

RECURSIVE deep_merge(_, _)
deep_merge(base, override) ==
    [key \in DOMAIN base \cup DOMAIN override |->
        IF key \notin DOMAIN override THEN base[key]
        ELSE IF key \in DOMAIN base
                /\ base[key].kind = "dict" /\ override[key].kind = "dict"
        THEN Dict(deep_merge(base[key].d, override[key].d))
        ELSE override[key]]

(* lines 89-113: the loop over ENV_VAR_MAPPING, from entry i on *)
RECURSIVE EnvOverridesFrom(_, _, _)
EnvOverridesFrom(env, i, acc) ==
    IF i > Len(ENV_VAR_MAPPING) THEN acc
    ELSE LET env_var == ENV_VAR_MAPPING[i][1]
             path_tuple == ENV_VAR_MAPPING[i][2]
         IN  EnvOverridesFrom(env, i + 1,
                 IF env_var \in DOMAIN env
                 THEN set_nested_value(acc, path_tuple,
                          Leaf(convert_value(env[env_var],
                                             path_tuple[Len(path_tuple)])))
                 ELSE acc)

get_env_overrides(env) == EnvOverridesFrom(env, 1, <<>>)

\* path.split("."), a path being its parts with "." between them
Split(path) == SelectSeq(path, LAMBDA x : x # ".")

(* The calls of apply_overrides that are modelled *)

\* the model names of example_6_priority_demonstration
ModelName ==
    [base |-> <<"M", "i", "n", "i", "M", "a", "x", "-", "M", "2">>,
     file |-> <<"g", "p", "t", "-", "4">>,
     env |-> <<"g", "p", "t", "-", "3", ".", "5", "-", "t", "u", "r", "b", "o">>,
     cli |-> <<"g", "p", "t", "-", "4", "-", "t", "u", "r", "b", "o">>]

BaseConfig ==
    [llm |-> Dict([model |-> Leaf(PyStr(ModelName.base)),
                   retry |-> Dict([enabled |-> Leaf(PyBool(TRUE)),
                                   max_retries |-> Leaf(PyInt(3))])]),
     agent |-> Dict([max_steps |-> Leaf(PyInt(100))]),
     tools |-> Dict([enable_bash |-> Leaf(PyBool(TRUE))])]

\* parsed override files: none, that of example 6, that of example 2, and
\* one that switches retrying off
OverrideFiles ==
    {<<>>,
     [llm |-> Dict([model |-> Leaf(PyStr(ModelName.file))])],
     [llm |-> Dict([model |-> Leaf(PyStr(ModelName.cli)),
                    retry |-> Dict([max_retries |-> Leaf(PyInt(5))])]),
      agent |-> Dict([max_steps |-> Leaf(PyInt(300))])],
     [llm |-> Dict([retry |-> Dict([enabled |-> Leaf(PyBool(FALSE))])])]}

\* environments: each mapped variable is unset or holds one of its strings
Environs ==
    LET unset == <<"<unset>">>
        choices == [MINI_AGENT_MODEL : {unset, ModelName.env},
                    MINI_AGENT_RETRY_ENABLED : {unset, <<"T", "R", "U", "E">>, <<"o", "f", "f">>},
                    MINI_AGENT_MAX_RETRIES : {unset, <<"7">>},
                    MINI_AGENT_MAX_STEPS : {unset, <<"5", "0">>, <<"2", ".", "5">>}]
    IN  {[n \in {x \in DOMAIN c : c[x] # unset} |-> c[n]] : c \in choices}

\* the (path, value) pairs of the set_cli_override calls
CliPalette ==
    {<<<<"llm", ".", "model">>, PyStr(ModelName.cli)>>,
     <<<<"agent", ".", "max_steps">>, PyInt(200)>>,
     <<<<"agent", ".", "max_steps">>, PyInt(150)>>,
     <<<<"llm", ".", "retry", ".", "max_retries">>, PyInt(9)>>}

InitConfig ==
    /\ config_dict = BaseConfig
    /\ override_data \in OverrideFiles
    /\ environ \in Environs
    /\ cli_args = <<>>
    /\ cfg_pc = "idle"
    /\ cfg_result = <<>>
    /\ cli_done = 0
    /\ overrides = <<>>
    \* enforce_context_limit is not running
    /\ given = <<>>
    /\ call_args = [model_context_limit |-> None, safety_margin |-> None]
    /\ self_cfg = DefaultSelf
    /\ heap = <<>>
    /\ messages = <<>>
    /\ pc = "idle"
    /\ target = 0
    /\ per_message_target = 0
    /\ msgs = <<>>
    /\ preserved = <<>>
    /\ preserved_ids = [bound |-> FALSE]
    /\ prunable = <<>>
    /\ removed_accumulator = <<>>
    /\ preserved_tokens = 0
    /\ prunable_tokens = 0
    /\ max_iterations = 0
    /\ iterations = 0
    /\ result = <<>>
    /\ raised = "none"
    \* select_context is not running
    /\ avg_tokens_per_word = Rat(1, 1)
    /\ query = <<>>
    /\ documents = <<>>
    /\ pool_messages = <<>>
    /\ tools_outputs = <<>>
    /\ token_budget = 0
    /\ sel_pc = "idle"
    /\ items = <<>>
    /\ idx = 0
    /\ picked = <<>>
    /\ selected = <<>>
    /\ used_tokens = 0
    \* no KeyboardListener is in use
    /\ should_stop = FALSE
    /\ current_key = [some |-> FALSE, s |-> <<>>]
    /\ listener_thread = "none"
    /\ ch = ""
    /\ next_char = ""
    /\ stdin = <<>>
    /\ stdin_eof = FALSE
    /\ is_tty = FALSE
    /\ raw_mode = FALSE
    /\ keys_typed = 0
    /\ returned = [by |-> "nothing"]
    /\ last_call = "none"
    /\ esc_typed = 0
    /\ esc_reported = 0

(* lines 79-87: self.cli_args[path] = value *)
set_cli_override(path, value) ==
    /\ cfg_pc = "idle"
    /\ cli_args' =
           IF \E i \in 1..Len(cli_args) : cli_args[i][1] = path
           THEN [i \in 1..Len(cli_args) |->
                    IF cli_args[i][1] = path THEN <<path, value>> ELSE cli_args[i]]
           ELSE Append(cli_args, <<path, value>>)
    /\ UNCHANGED <<config_dict, override_data, environ, cfg_pc, cfg_result,
                   cli_done, overrides, enforce_vars, select_vars, keyboard_vars>>

(* lines 156-164: copy the base, merge the override file *)
MergeFile ==
    /\ cfg_pc = "idle"
    /\ cfg_result' = IF DOMAIN override_data # {}
                     THEN deep_merge(config_dict, override_data)
                     ELSE config_dict
    /\ cfg_pc' = "env"
    /\ UNCHANGED <<config_dict, override_data, environ, cli_args, cli_done,
                   overrides, enforce_vars, select_vars, keyboard_vars>>

(* lines 166-169 *)
MergeEnv ==
    /\ cfg_pc = "env"
    /\ cfg_result' = IF DOMAIN get_env_overrides(environ) # {}
                     THEN deep_merge(cfg_result, get_env_overrides(environ))
                     ELSE cfg_result
    /\ cfg_pc' = "cli"
    /\ UNCHANGED <<config_dict, override_data, environ, cli_args, cli_done,
                   overrides, enforce_vars, select_vars, keyboard_vars>>

(* lines 172-176: one entry of self.cli_args *)
ApplyCli ==
    /\ cfg_pc = "cli"
    /\ cli_done < Len(cli_args)
    /\ LET path == cli_args[cli_done + 1][1]
           value == cli_args[cli_done + 1][2]
       IN  /\ cfg_result' = set_nested_value(cfg_result, Split(path), Leaf(value))
           /\ overrides' = Put(overrides, path, [value |-> value, source |-> "cli"])
    /\ cli_done' = cli_done + 1
    /\ UNCHANGED <<config_dict, override_data, environ, cli_args, cfg_pc,
                   enforce_vars, select_vars, keyboard_vars>>

(* line 188 *)
ReturnConfig ==
    /\ cfg_pc = "cli"
    /\ cli_done = Len(cli_args)
    /\ cfg_pc' = "returned"
    /\ UNCHANGED <<config_dict, override_data, environ, cli_args, cfg_result,
                   cli_done, overrides, enforce_vars, select_vars, keyboard_vars>>

NextConfig ==
    \/ \E e \in CliPalette : set_cli_override(e[1], e[2])
    \/ MergeFile
    \/ MergeEnv
    \/ ApplyCli
    \/ ReturnConfig

SpecConfig == InitConfig /\ [][NextConfig]_vars

-----------------------------------------------------------------------------
(* Properties of apply_overrides *)

ConfigPaths ==
    {<<"llm", "model">>, <<"llm", "retry", "enabled">>,
     <<"llm", "retry", "max_retries">>, <<"agent", "max_steps">>,
     <<"tools", "enable_bash">>}

RECURSIVE HasPath(_, _)
HasPath(d, p) ==
    /\ p[1] \in DOMAIN d
    /\ Len(p) > 1 => (d[p[1]].kind = "dict" /\ HasPath(d[p[1]].d, Tail(p)))

RECURSIVE GetPath(_, _)
GetPath(d, p) == IF Len(p) = 1 THEN d[p[1]] ELSE GetPath(d[p[1]].d, Tail(p))

CliSets(p) == \E i \in 1..Len(cli_args) : Split(cli_args[i][1]) = p

EnvSets(p) ==
    \E i \in 1..Len(ENV_VAR_MAPPING) :
        ENV_VAR_MAPPING[i][2] = p /\ ENV_VAR_MAPPING[i][1] \in DOMAIN environ

FileSets(p) == HasPath(override_data, p)

\* the value of the source of highest priority that sets p
ValueByPriority(p) ==
    IF CliSets(p)
    THEN LET i == CHOOSE i \in 1..Len(cli_args) : Split(cli_args[i][1]) = p
         IN  Leaf(cli_args[i][2])
    ELSE IF EnvSets(p)
    THEN LET i == CHOOSE i \in 1..Len(ENV_VAR_MAPPING) : ENV_VAR_MAPPING[i][2] = p
         IN  Leaf(convert_value(environ[ENV_VAR_MAPPING[i][1]], p[Len(p)]))
    ELSE IF FileSets(p) THEN GetPath(override_data, p)
    ELSE GetPath(config_dict, p)

\* C14: apply_overrides returns, for every configuration path, the value of
\* the source of highest priority that sets it, in the order CLI >
\* environment variable > override file > base config; a path no override
\* sets keeps the value of the base config.
C14_OverridePriority ==
    cfg_pc = "returned" =>
        \A p \in ConfigPaths :
            /\ HasPath(cfg_result, p)
            /\ GetPath(cfg_result, p) = ValueByPriority(p)

C14_Witness ==
    /\ cfg_pc = "returned"
    /\ CliSets(<<"llm", "model">>)
    /\ EnvSets(<<"llm", "model">>)
    /\ FileSets(<<"llm", "model">>)
    /\ override_data.llm.d.model # Leaf(PyStr(ModelName.cli))
    /\ GetPath(cfg_result, <<"llm", "model">>) = Leaf(PyStr(ModelName.cli))
    /\ EnvSets(<<"llm", "retry", "max_retries">>)
    /\ ~CliSets(<<"llm", "retry", "max_retries">>)
    /\ GetPath(cfg_result, <<"llm", "retry", "max_retries">>) = Leaf(PyInt(7))
    /\ ~CliSets(<<"agent", "max_steps">>)
    /\ ~EnvSets(<<"agent", "max_steps">>)
    /\ ~FileSets(<<"agent", "max_steps">>)
    /\ GetPath(cfg_result, <<"agent", "max_steps">>) = Leaf(PyInt(100))

-----------------------------------------------------------------------------
(* Properties of the scan of select_context *)

\* used_tokens when the scan reaches item j
UsedAtTurn(j) ==
    SumSeq([i \in 1..Len(selected) |->
               IF picked[i] < j THEN selected[i].est_tokens ELSE 0])

\* a is a prefix of b, in words
IsPrefix(a, b) == Len(a) <= Len(b) /\ a = SubSeq(b, 1, Len(a))

\* C21: a returned item has a truncated text only if it did not fit the
\* remaining budget, its score is >= 0.6 and the remaining budget was > 0;
\* the truncated text is a prefix in words of the original text, of at least
\* 1 word, and est_tokens is the estimate of the returned text; every other
\* returned item has its original text and the estimate of that text.
C21_TruncationEligibility ==
    \A i \in 1..Len(selected) :
        LET it == ItemOf(i)
            used == UsedAtTurn(picked[i])
        IN  /\ selected[i].est_tokens
                   = estimate_tokens(selected[i].text, avg_tokens_per_word)
            /\ selected[i].text # it.text
                   => /\ used + estimate_tokens(it.text, avg_tokens_per_word)
                             > token_budget
                      /\ RatGeq(it.score, Rat(6, 10))
                      /\ token_budget - used > 0
                      /\ IsPrefix(selected[i].text, it.text)
                      /\ Len(selected[i].text) >= 1

C21_Witness ==
    /\ SelectReturned
    /\ \E i \in 1..Len(selected) :
           /\ IsTruncated(i)
           /\ Len(selected[i].text) >= 2
    /\ \E k \in 1..Len(items) :
           /\ k \notin Range(picked)
           /\ ~RatGeq(items[k].score, Rat(6, 10))

\* C22: an item that does not fit and scores below 0.6 is skipped and the
\* scan goes on: every item whose estimate fits the budget left at its turn
\* is returned in full, and an item is missing from the result only if
\* used_tokens plus its estimate exceeded token_budget at its turn.
C22_SkipAndContinue ==
    SelectReturned =>
        \A j \in 1..Len(items) :
            LET est == estimate_tokens(items[j].text, avg_tokens_per_word)
            IN  /\ j \notin Range(picked) => UsedAtTurn(j) + est > token_budget
                /\ UsedAtTurn(j) + est <= token_budget
                       => \E i \in 1..Len(selected) :
                              picked[i] = j /\ selected[i].text = items[j].text

C22_Witness ==
    /\ SelectReturned
    /\ \E j, k \in 1..Len(items) :
           /\ j < k
           /\ j \notin Range(picked)
           /\ ~RatGeq(items[j].score, Rat(6, 10))
           /\ UsedAtTurn(j) < token_budget
           /\ k \in Range(picked)

-----------------------------------------------------------------------------
(* Properties of normalization and scoring in select_context *)

\* the text of a record when a present `text` field always counts
TextFieldFirst(d) ==
    IF "text" \in DOMAIN d THEN d.text
    ELSE IF "content" \in DOMAIN d THEN d.content
    ELSE <<>>

NormalizedAs(src, entry) ==
    IF entry.kind = "str"
    THEN [source |-> src, text |-> entry.text, metadata |-> <<>>]
    ELSE [source |-> src, text |-> TextFieldFirst(entry.d),
          metadata |-> [k \in DOMAIN entry.d \ {"text", "content"} |-> entry.d[k]]]

PoolsNormalized ==
    [i \in 1..Len(documents) |-> NormalizedAs("document", documents[i])]
      \o [i \in 1..Len(pool_messages) |-> NormalizedAs("message", pool_messages[i])]
      \o [i \in 1..Len(tools_outputs) |-> NormalizedAs("tool", tools_outputs[i])]

\* the items of select_context without their scores
ItemsUnscored ==
    [i \in 1..Len(items) |->
        [source |-> items[i].source, text |-> items[i].text,
         metadata |-> items[i].metadata]]

Occurrences(seq, x) == Cardinality({i \in 1..Len(seq) : seq[i] = x})

\* C23: every pool element becomes one item: a plain text gives that text
\* and empty metadata; a record gives the value of its `text` field when it
\* has one (the empty string included), else of `content`, else the empty
\* string, and as metadata its other fields unchanged; the source tag is that
\* of the pool.
C23_PoolNormalization ==
    sel_pc # "call" =>
        /\ Len(items) = Len(PoolsNormalized)
        /\ \A i \in 1..Len(PoolsNormalized) :
               Occurrences(ItemsUnscored, PoolsNormalized[i])
                   = Occurrences(PoolsNormalized, PoolsNormalized[i])

\* C24: an item whose metadata w is missing, None or not a number has
\* importance 0; an item without ts has recency 0, and an item with a ts,
\* 0 and future times included, has a recency that is > 0 and <= 1.
C24_ScoringSignals ==
    sel_pc # "call" =>
        \A i \in 1..Len(items) :
            LET m == items[i].metadata
                rec == recency_score(m)
            IN  /\ ("w" \notin DOMAIN m \/ m.w.kind # "num")
                       => RatEq(importance_score(m), Rat(0, 1))
                /\ "ts" \notin DOMAIN m => RatEq(rec, Rat(0, 1))
                /\ "ts" \in DOMAIN m
                       => (RatLess(Rat(0, 1), rec) /\ RatGeq(Rat(1, 1), rec))

-----------------------------------------------------------------------------
(* Properties of the KeyboardListener across calls *)

\* C25: one press of ESC makes at most one call of is_esc_pressed() return
\* True, whatever the interleaving with the listener thread and whatever is
\* typed after the ESC: the calls that returned True are never more than the
\* ESC keys pressed.
C25_EscReadOnce == esc_reported <= esc_typed

\* C26: when the last of the start() and stop() calls on a listener at a
\* terminal is start(), a listener thread is alive and the stop flag is
\* cleared, also when the previous thread had not exited at that call.
C26_RestartableListener ==
    (last_call = "start" /\ is_tty) => (is_alive /\ ~should_stop)

-----------------------------------------------------------------------------
(* Properties of the preserved and prunable lists of enforce_context_limit *)

NoRepeat(seq) == \A i, j \in 1..Len(seq) : seq[i] = seq[j] => i = j

\* C27: at the start of the pruning loop the preserved and the prunable
\* lists are disjoint, hold no message twice and together hold every message
\* of the working copy exactly once, so preserved_tokens + prunable_tokens is
\* the batch estimate of the working copy; throughout the loop
\* prunable_tokens is the sum of the estimates of the messages still in the
\* prunable list.
C27_PartitionInvariant ==
    /\ (pc = "prune" /\ iterations = 0) =>
           /\ NoRepeat(preserved)
           /\ NoRepeat(prunable)
           /\ Range(preserved) \cap Range(prunable) = {}
           /\ Range(preserved) \cup Range(prunable) = Range(msgs)
           /\ Len(preserved) + Len(prunable) = Len(msgs)
           /\ preserved_tokens + prunable_tokens
                  = estimate_tokens_for_messages(heap, msgs)
    /\ pc \in {"prune", "capped"} =>
           prunable_tokens = estimate_tokens_for_messages(heap, prunable)

\* the loop has removed a message and has more to look at, in a run whose
\* only user message is both the first and the last one
C27_Witness ==
    /\ pc = "prune"
    /\ iterations >= 1
    /\ prunable # <<>>
    /\ Len(user_msgs(heap, msgs)) = 1
    /\ Len(preserved) >= 2

====
